---- MODULE Spec2Model ----
(***************************************************************************)
(* A model of the EmotionTracker mood journal (mood_tracker.py): the       *)
(* session loop, the add-record handler with its validation, the poem      *)
(* store query, the trend check, the chart view and the remote poem fetch. *)
(* Strings are sequences of one-character strings.                         *)
(***************************************************************************)
EXTENDS Integers, Sequences, FiniteSets, TLC

\* ------------------------------------------------------------------ bounds
\* Most records an explored session appends.
MaxHistory == 3
\* Most times the wall clock moves to the next day during a session.
MaxTicks == 1
\* Longest history handed to the trend check on its own.
MaxTrendLen == 4
\* Longest history with which the inspirations screen is explored.
MaxFetchHistory == 1

\* ------------------------------------------------------- program constants
max_attempts == 20
LinecountLimit == 1000
DateMaxLength == 10
MoodMaxLength == 2
MinScore == 1
MaxScore == 10
HappyFrom == 6
TrendPivot == 5
TrendWindow == 3
DisplayMaxLines == 5

None == [tag |-> "None"]

\* ------------------------------------------------------------------ strings
Digits == {"0", "1", "2", "3", "4", "5", "6", "7", "8", "9"}
DigitChar == <<"0", "1", "2", "3", "4", "5", "6", "7", "8", "9">>
DigitVal(c) == CHOOSE n \in 0..9 : DigitChar[n + 1] = c

\* The character code of the characters the model uses (chr/ord of Python).
ord ==
  [c \in {" ", "+", "-", "_", "a"} \cup Digits |->
     CASE c = " " -> 32 [] c = "+" -> 43 [] c = "-" -> 45 [] c = "_" -> 95
       [] c = "a" -> 97 [] OTHER -> 48 + DigitVal(c)]

\* s < t for Python str: lexicographic on the character codes.
RECURSIVE StrLess(_, _)
StrLess(s, t) ==
  IF t = <<>> THEN FALSE
  ELSE IF s = <<>> THEN TRUE
  ELSE IF ord[Head(s)] # ord[Head(t)] THEN ord[Head(s)] < ord[Head(t)]
  ELSE StrLess(Tail(s), Tail(t))

\* str.strip() of the leading and of the trailing blanks.
RECURSIVE lstrip(_)
lstrip(s) == IF s # <<>> /\ Head(s) = " " THEN lstrip(Tail(s)) ELSE s
RECURSIVE rstrip(_)
rstrip(s) ==
  IF s # <<>> /\ s[Len(s)] = " " THEN rstrip(SubSeq(s, 1, Len(s) - 1)) ELSE s

RECURSIVE DigitsValue(_, _)
DigitsValue(s, acc) ==
  IF s = <<>> THEN acc
  ELSE IF Head(s) = "_" THEN DigitsValue(Tail(s), acc)
  ELSE DigitsValue(Tail(s), 10 * acc + DigitVal(Head(s)))

\* int(str) of Python: blanks stripped, an optional sign, then digits, with
\* single underscores allowed between digits; anything else is a ValueError.
py_int(str) ==
  LET t == rstrip(lstrip(str))
      signed == t # <<>> /\ Head(t) \in {"+", "-"}
      body == IF signed THEN Tail(t) ELSE t
      wellformed ==
        /\ body # <<>>
        /\ Head(body) \in Digits
        /\ body[Len(body)] \in Digits
        /\ \A i \in 1..Len(body) : body[i] \in Digits \cup {"_"}
        /\ \A i \in 1..(Len(body) - 1) : ~(body[i] = "_" /\ body[i + 1] = "_")
  IN IF ~wellformed THEN [ok |-> FALSE, exc |-> "ValueError"]
     ELSE [ok |-> TRUE,
           val |-> IF signed /\ Head(t) = "-" THEN 0 - DigitsValue(body, 0)
                   ELSE DigitsValue(body, 0)]

\* get_input: keystrokes are appended until Enter or until max_length
\* characters are held; Backspace removes the last character.
Printable == DOMAIN ord
RECURSIVE get_input_loop(_, _, _)
get_input_loop(keys, input_str, max_length) ==
  IF ~(Len(input_str) < max_length) \/ keys = <<>> THEN input_str
  ELSE LET char == Head(keys) IN
    IF char = "ENTER" THEN input_str
    ELSE IF char = "BACKSPACE" THEN
      get_input_loop(Tail(keys),
                     IF Len(input_str) > 0
                       THEN SubSeq(input_str, 1, Len(input_str) - 1)
                       ELSE input_str,
                     max_length)
    ELSE IF char \in Printable THEN
      get_input_loop(Tail(keys), Append(input_str, char), max_length)
    ELSE get_input_loop(Tail(keys), input_str, max_length)
get_input(keys, max_length) == get_input_loop(keys, <<>>, max_length)

\* ------------------------------------------------------------ the calendar
\* datetime.now() is a day of March 2024; strftime("%Y-%m-%d") formats it.
StartDay == [y |-> 2024, m |-> 3, d |-> 2]
Pad2(n) == <<DigitChar[(n \div 10) + 1], DigitChar[(n % 10) + 1]>>
Pad4(n) == Pad2(n \div 100) \o Pad2(n % 100)
strftime(dt) == Pad4(dt.y) \o <<"-">> \o Pad2(dt.m) \o <<"-">> \o Pad2(dt.d)

\* Keystrokes the user may give at the date prompt and at the score prompt.
DateKeys ==
  { <<"ENTER">>,
    <<"2", "0", "2", "4", "-", "0", "3", "-", "0", "1">> }
MoodKeys ==
  { <<"ENTER">>, <<"0", "ENTER">>, <<"1", "ENTER">>, <<"5", "ENTER">>,
    <<"6", "ENTER">>, <<"1", "0">>, <<"1", "1">>, <<"0", "5">>,
    <<" ", "1">>, <<"6", " ">>, <<"+", "6">>, <<"-", "1">>,
    <<"a", "ENTER">>, <<"1", "a">>, <<"1", "_">>, <<" ", "ENTER">>,
    <<"a", "BACKSPACE", "5", "ENTER">>, <<"1", "0", "0", "ENTER">> }

\* What int() of Python makes of the texts that occur: the integer texts with
\* their values, and the texts int() refuses.
IntegerTexts ==
  { [text |-> <<"0">>, value |-> 0], [text |-> <<"1">>, value |-> 1],
    [text |-> <<"5">>, value |-> 5], [text |-> <<"6">>, value |-> 6],
    [text |-> <<"1", "0">>, value |-> 10],
    [text |-> <<"1", "1">>, value |-> 11],
    [text |-> <<"0", "5">>, value |-> 5],
    [text |-> <<" ", "1">>, value |-> 1],
    [text |-> <<"6", " ">>, value |-> 6],
    [text |-> <<"+", "6">>, value |-> 6],
    [text |-> <<"-", "1">>, value |-> 0 - 1],
    [text |-> <<"9", "9", "9">>, value |-> 999],
    [text |-> <<"1", "0", "0", "0">>, value |-> 1000] }
NonIntegerTexts == { <<>>, <<"a">>, <<"1", "a">>, <<"1", "_">>, <<" ">> }

\* ---------------------------------------------------------- the poem store
Return(v) == [tag |-> "return", value |-> v]
Raise(e) == [tag |-> "raise", exc |-> e]

\* Rows of the poems table. "NUL" is the character chr(0), "NL" a line break.
JoyRow ==
  [poem_name |-> <<"J", "o", "y">>, writer_name |-> <<"A">>,
   poem_text |-> <<"u", "p", "NL", "u", "p">>, mood_type |-> "happy"]
BlueRow ==
  [poem_name |-> <<"B", "l", "u", "e">>, writer_name |-> <<"B">>,
   poem_text |-> <<"l", "o", "w">>, mood_type |-> "sad"]
DawnRow ==
  [poem_name |-> <<"D", "a", "w", "n">>, writer_name |-> <<"C">>,
   poem_text |-> <<"n", "e", "w">>, mood_type |-> "new-life"]
VoidRow ==
  [poem_name |-> <<"V", "NUL", "d">>, writer_name |-> <<"D">>,
   poem_text |-> <<"n", "i", "l">>, mood_type |-> "sad"]
PoemRows == {JoyRow, BlueRow, DawnRow, VoidRow}

\* The file at db_path: absent, not a usable database, or a poems table.
Stores ==
  {[state |-> "missing"], [state |-> "broken"]}
    \cup {[state |-> "open", rows |-> R] :
            R \in { {}, {DawnRow}, {JoyRow, DawnRow}, {BlueRow, DawnRow},
                    {VoidRow, DawnRow}, {JoyRow, BlueRow, DawnRow},
                    PoemRows }}

mood_type_above(mood_score) == IF mood_score > HappyFrom THEN "happy" ELSE "sad"
mood_type_of(mood_score) == IF mood_score >= HappyFrom THEN "happy" ELSE "sad"

PoemDict(row) ==
  [poem_name |-> row.poem_name, writer_name |-> row.writer_name,
   poem_text |-> row.poem_text]

\* The body of the try block: connect, SELECT ... WHERE mood_type = ?
\* ORDER BY RANDOM() LIMIT 1, fetchone. The set of the possible outcomes.
query_poems(db, mood_score) ==
  IF db.state = "broken" THEN {Raise("Exception")}
  ELSE LET mood_type == mood_type_of(mood_score)
           matching == {row \in db.rows : row.mood_type = mood_type}
       IN IF matching = {} THEN {Return(None)}
          ELSE {Return(PoemDict(row)) : row \in matching}

\* The query with no except clause around it.
get_poem_by_mood_unguarded(db, mood_score) ==
  IF db.state = "missing" THEN {Return(None)}
  ELSE query_poems(db, mood_score)

get_poem_by_mood(db, mood_score) ==
  IF db.state = "missing" THEN {Return(None)}
  ELSE {IF o.tag = "raise" THEN Return(None) ELSE o :
          o \in query_poems(db, mood_score)}

\* ---------------------------------------------------------------- display
\* stdscr.addstr raises ValueError for a text curses cannot take: one with
\* an embedded null character (on a build without wide characters, also one
\* the locale cannot encode). "NUL" stands for such a character.
addstr(text) ==
  IF \E i \in 1..Len(text) : text[i] = "NUL" THEN Raise("ValueError")
  ELSE Return(None)

\* str.split('\n')
RECURSIVE split_lines(_, _)
split_lines(text, current) ==
  IF text = <<>> THEN <<current>>
  ELSE IF Head(text) = "NL" THEN <<current>> \o split_lines(Tail(text), <<>>)
  ELSE split_lines(Tail(text), Append(current, Head(text)))

display_poem(poem, max_lines) ==
  IF poem = None THEN Return(None)
  ELSE
    LET poem_lines ==
          IF poem.poem_text # <<>> THEN split_lines(poem.poem_text, <<>>)
          ELSE <<>>
        shown == IF Len(poem_lines) < max_lines THEN Len(poem_lines)
                 ELSE max_lines
    IN IF addstr(poem.poem_name).tag = "raise" THEN addstr(poem.poem_name)
       ELSE IF addstr(poem.writer_name).tag = "raise"
         THEN addstr(poem.writer_name)
       ELSE IF \E i \in 1..shown : addstr(poem_lines[i]).tag = "raise"
         THEN Raise("ValueError")
       ELSE Return(None)

\* ------------------------------------------------------------------ trends
\* The streak test with the pivot itself counted into both streaks.
check_mood_trends_inclusive(moods_) ==
  IF Len(moods_) >= TrendWindow THEN
    LET last_three ==
          SubSeq(moods_, Len(moods_) - TrendWindow + 1, Len(moods_))
    IN IF \A i \in 1..Len(last_three) : last_three[i] <= TrendPivot
         THEN "LowStreak"
       ELSE IF \A i \in 1..Len(last_three) : last_three[i] >= TrendPivot
         THEN "HighStreak"
       ELSE "NoTrend"
  ELSE "NoTrend"

check_mood_trends(moods_) ==
  IF Len(moods_) >= TrendWindow THEN
    LET last_three ==
          SubSeq(moods_, Len(moods_) - TrendWindow + 1, Len(moods_))
    IN IF \A i \in 1..Len(last_three) : last_three[i] < TrendPivot
         THEN "LowStreak"
       ELSE IF \A i \in 1..Len(last_three) : last_three[i] > TrendPivot
         THEN "HighStreak"
       ELSE "NoTrend"
  ELSE "NoTrend"

\* ------------------------------------------------------------------- chart
zip(xs, ys) ==
  [i \in 1..(IF Len(xs) < Len(ys) THEN Len(xs) ELSE Len(ys)) |->
     <<xs[i], ys[i]>>]

\* An insertion that puts the element before the elements of equal key.
RECURSIVE insert_ties_first(_, _)
insert_ties_first(x, done) ==
  IF done = <<>> THEN <<x>>
  ELSE IF ~StrLess(Head(done)[1], x[1]) THEN <<x>> \o done
  ELSE <<Head(done)>> \o insert_ties_first(x, Tail(done))

\* sorted(pairs, key=lambda x: x[0]): a stable sort on the date string. The
\* element goes behind every element whose key is not greater than its own.
RECURSIVE insert_by_date(_, _)
insert_by_date(x, done) ==
  IF done = <<>> THEN <<x>>
  ELSE IF StrLess(x[1], Head(done)[1]) THEN <<x>> \o done
  ELSE <<Head(done)>> \o insert_by_date(x, Tail(done))

RECURSIVE sort_from(_, _)
sort_from(pairs, done) ==
  IF pairs = <<>> THEN done
  ELSE sort_from(Tail(pairs), insert_by_date(Head(pairs), done))

sorted_by_date(pairs) == sort_from(pairs, <<>>)

\* -------------------------------------------------------- the remote fetch
\* JSON values, tagged with their Python type.
JNull == [t |-> "null"]
JNum(n) == [t |-> "num", n |-> n]
JStr(s) == [t |-> "str", s |-> s]
JList(items) == [t |-> "list", items |-> items]
JDict(fields) == [t |-> "dict", fields |-> fields]

\* What requests.get + raise_for_status + response.json() may give.
TransportError == [kind |-> "RequestException"]
Json(body) == [kind |-> "json", body |-> body]
PoemObject(fields) == Json(JList(<<JDict(fields)>>))
Responses ==
  { TransportError,
    Json(JList(<<>>)),
    Json(JDict([status |-> JNum(404)])),
    Json(JNum(7)),
    Json(JList(<<JStr(<<"a">>)>>)),
    PoemObject([title |-> JStr(<<"a">>), author |-> JStr(<<"a">>),
                linecount |-> JStr(<<"9", "9", "9">>),
                lines |-> JList(<<JStr(<<"a">>)>>)]),
    PoemObject([title |-> JStr(<<"a">>),
                linecount |-> JStr(<<"1", "0", "0", "0">>)]),
    PoemObject([author |-> JStr(<<"a">>)]),
    PoemObject([title |-> JStr(<<"a">>), linecount |-> JStr(<<"a">>)]),
    PoemObject([title |-> JStr(<<"a">>), linecount |-> JNull]) }

\* bool(x) of Python.
truthy(j) ==
  CASE j.t = "null" -> FALSE
    [] j.t = "num" -> j.n # 0
    [] j.t = "str" -> j.s # <<>>
    [] j.t = "list" -> j.items # <<>>
    [] j.t = "dict" -> DOMAIN j.fields # {}

\* dict.get(key, default); any other type has no attribute get.
dict_get(j, key, default) ==
  IF j.t # "dict" THEN Raise("AttributeError")
  ELSE IF key \in DOMAIN j.fields THEN Return(j.fields[key])
  ELSE Return(default)

\* int(x) of Python on a JSON value.
int_of(j) ==
  CASE j.t = "num" -> [ok |-> TRUE, val |-> j.n]
    [] j.t = "str" -> py_int(j.s)
    [] OTHER -> [ok |-> FALSE, exc |-> "TypeError"]

Continue == [tag |-> "continue"]

\* The linecount test of get_random_poem.
suitable_upto(linecount) == linecount <= LinecountLimit
suitable(linecount) == linecount < LinecountLimit

\* One pass through the try block of get_random_poem on one response: a
\* return, a fall through to attempts += 1, or an exception.
try_body(resp) ==
  IF resp.kind = "RequestException" THEN Raise("RequestException")
  ELSE
    LET poems == resp.body IN
    IF ~truthy(poems) THEN Continue
    ELSE IF poems.t \notin {"list", "dict", "str"} THEN Raise("TypeError")
    ELSE IF poems.t = "dict" THEN Raise("KeyError")
    ELSE
      LET poem == IF poems.t = "list" THEN poems.items[1]
                  ELSE JStr(<<poems.s[1]>>)
          got == dict_get(poem, "linecount", JNum(0))
      IN IF got.tag = "raise" THEN got
         ELSE LET linecount == int_of(got.value) IN
           IF ~linecount.ok THEN Raise(linecount.exc)
           ELSE IF suitable(linecount.val) THEN
             Return([title |-> dict_get(poem, "title", JStr(<<"Untitled">>)).value,
                     author |-> dict_get(poem, "author", JStr(<<"Unknown">>)).value,
                     lines |-> dict_get(poem, "lines", JList(<<>>)).value])
           ELSE Continue

\* The exceptions the except clause of get_random_poem names.
Caught == {"RequestException", "JSONDecodeError", "ValueError", "KeyError"}

\* attempts after a pass that did not return.
count_nothing(attempts_) == attempts_
count_attempt(attempts_) == attempts_ + 1

\* ------------------------------------------------------------------- state
VARIABLES
  dates, moods,     \* self.dates, self.moods
  current_date,     \* self.current_date
  now,              \* the wall clock, datetime.now()
  pc,               \* where run() stands: menu, wait, fetching, exited, crashed
  screen,           \* what the last handler left on the screen
  date_input,       \* add_mood_record: the date text it read
  mood_input,       \* add_mood_record: the score text it read
  db,               \* add_mood_record: the poem store it queried
  poem,             \* add_mood_record: what get_poem_by_mood returned
  trend,            \* add_mood_record: what check_mood_trends reported
  chart,            \* plot_mood_chart: the pairs handed to the plot
  attempts,         \* get_random_poem: attempts
  requests,         \* get_random_poem: requests.get calls made so far
  response,         \* get_random_poem: the response of the last call
  first_suitable,   \* number of the first call that gave a poem object with
                    \* a line count under the limit, 0 while there is none
  fetched,          \* show_inspirations: what get_random_poem returned
  raised,           \* the exception that left run(), if any
  log,              \* diagnostics the session has written (a log line, an
                    \* attribute): no statement of the source writes one
  poems_db,         \* the scraper's view of the file at db_path
  offered,          \* insert_poems_to_duckdb: the arguments of the last call
  asked             \* the score of a get_poem_by_mood call made on its own

history == <<dates, moods>>
addVars == <<date_input, mood_input, db, poem, trend>>
fetchVars == <<attempts, requests, response, first_suitable, fetched>>
storeVars == <<poems_db, offered, asked>>
vars == <<dates, moods, current_date, now, pc, screen, date_input,
          mood_input, db, poem, trend, chart, attempts, requests, response,
          first_suitable, fetched, raised, log, poems_db, offered, asked>>

\* What draw_main_menu shows after stdscr.clear(): nothing of the last action.
Cleared ==
  /\ screen' = "menu"
  /\ date_input' = <<>> /\ mood_input' = <<>> /\ db' = None /\ poem' = None
  /\ trend' = "NotChecked" /\ chart' = <<>>
  /\ attempts' = 0 /\ requests' = 0 /\ response' = None
  /\ first_suitable' = 0 /\ fetched' = None

Init ==
  /\ dates = <<>> /\ moods = <<>>
  /\ now = StartDay
  /\ current_date = strftime(StartDay)
  /\ pc = "menu" /\ screen = "menu"
  /\ date_input = <<>> /\ mood_input = <<>> /\ db = None /\ poem = None
  /\ trend = "NotChecked" /\ chart = <<>>
  /\ attempts = 0 /\ requests = 0 /\ response = None
  /\ first_suitable = 0 /\ fetched = None
  /\ raised = None
  /\ log = <<>>
  /\ poems_db = None /\ offered = None /\ asked = 0

\* Midnight passes while the menu waits for a key.
Tick ==
  /\ pc = "menu"
  /\ now.d < StartDay.d + MaxTicks
  /\ now' = [now EXCEPT !.d = @ + 1]
  /\ UNCHANGED <<history, current_date, log, storeVars, pc, screen, addVars,
                 chart, fetchVars, raised>>

\* The date add_mood_record falls back to when none is typed.
default_date_now == strftime(now)
default_date == current_date

\* The range check with its lower end one too low.
in_range_from_zero(mood_score) ==
  MinScore - 1 <= mood_score /\ mood_score <= MaxScore
in_range(mood_score) == MinScore <= mood_score /\ mood_score <= MaxScore

\* run(): key '1', add_mood_record up to its closing getch.
add_mood_record(date_keys, mood_keys, store) ==
  LET typed == get_input(date_keys, DateMaxLength)
      date_in == IF typed = <<>> THEN default_date ELSE typed
      mood_in == get_input(mood_keys, MoodMaxLength)
      parsed == py_int(mood_in)
  IN
  /\ pc = "menu"
  /\ date_input' = typed
  /\ mood_input' = mood_in
  /\ chart' = <<>>
  /\ UNCHANGED <<current_date, log, storeVars, now, fetchVars>>
  /\ IF ~parsed.ok THEN
       \* except ValueError, raised by int()
       /\ screen' = "not_a_number"
       /\ pc' = "wait"
       /\ UNCHANGED <<history, db, poem, trend, raised>>
     ELSE IF in_range(parsed.val) THEN
       /\ Len(moods) < MaxHistory
       /\ dates' = Append(dates, date_in)
       /\ moods' = Append(moods, parsed.val)
       /\ db' = store
       /\ \E got \in get_poem_by_mood(store, parsed.val) :
            IF got.tag = "raise" THEN
              \* not a ValueError: it leaves add_mood_record and run
              /\ poem' = None /\ trend' = "NotChecked"
              /\ screen' = "added"
              /\ pc' = "crashed"
              /\ raised' = [exc |-> got.exc, in |-> "get_poem_by_mood"]
            ELSE
              /\ poem' = got.value
              /\ raised' = raised
              /\ pc' = "wait"
              /\ IF display_poem(got.value, DisplayMaxLines).tag = "raise" THEN
                   \* the ValueError of addstr lands in the except clause
                   /\ screen' = "not_a_number"
                   /\ trend' = "NotChecked"
                 ELSE
                   /\ screen' = "added"
                   /\ trend' = check_mood_trends(moods')
     ELSE
       /\ screen' = "out_of_range"
       /\ pc' = "wait"
       /\ UNCHANGED <<history, db, poem, trend, raised>>

AddMoodRecord ==
  \E date_keys \in DateKeys, mood_keys \in MoodKeys, store \in Stores :
    add_mood_record(date_keys, mood_keys, store)

\* run(): key '2', view_mood_records up to its getch.
ViewMoodRecords ==
  /\ pc = "menu"
  /\ screen' = IF dates = <<>> THEN "no_records" ELSE "records"
  /\ pc' = "wait"
  /\ UNCHANGED <<history, current_date, log, storeVars, now, addVars, chart,
                 fetchVars, raised>>

\* plot_mood_chart sorting the two lists themselves rather than a copy.
PlotMoodChartInPlace ==
  /\ pc = "menu"
  /\ IF dates = <<>> \/ moods = <<>> THEN
       /\ screen' = "no_records_to_chart"
       /\ chart' = <<>>
       /\ UNCHANGED history
     ELSE
       /\ screen' = "chart"
       /\ chart' = sorted_by_date(zip(dates, moods))
       /\ dates' = [i \in 1..Len(dates) |-> chart'[i][1]]
       /\ moods' = [i \in 1..Len(moods) |-> chart'[i][2]]
  /\ pc' = "wait"
  /\ UNCHANGED <<current_date, log, storeVars, now, addVars, fetchVars,
                 raised>>

\* run(): key '3', plot_mood_chart up to getch or plt.show().
PlotMoodChart ==
  /\ pc = "menu"
  /\ IF dates = <<>> \/ moods = <<>> THEN
       /\ screen' = "no_records_to_chart"
       /\ chart' = <<>>
     ELSE
       /\ screen' = "chart"
       /\ chart' = sorted_by_date(zip(dates, moods))
  /\ pc' = "wait"
  /\ UNCHANGED <<history, current_date, log, storeVars, now, addVars,
                 fetchVars, raised>>

\* run(): key '4', show_inspirations entering get_random_poem.
ShowInspirations ==
  /\ pc = "menu"
  /\ Len(moods) <= MaxFetchHistory
  /\ pc' = "fetching"
  /\ screen' = "fetching"
  /\ attempts' = 0 /\ requests' = 0 /\ response' = None
  /\ first_suitable' = 0 /\ fetched' = None
  /\ UNCHANGED <<history, current_date, log, storeVars, now, addVars, chart,
                 raised>>

\* A response that carries a poem object whose line count, made an integer
\* (0 when absent), is under the limit.
IsCandidate(resp) ==
  /\ resp.kind = "json"
  /\ resp.body.t = "list" /\ resp.body.items # <<>>
  /\ resp.body.items[1].t = "dict"
  /\ LET f == resp.body.items[1].fields IN
       \/ "linecount" \notin DOMAIN f
       \/ /\ "linecount" \in DOMAIN f
          /\ f["linecount"].t = "num"
          /\ f["linecount"].n < 1000
       \/ /\ "linecount" \in DOMAIN f
          /\ f["linecount"].t = "str"
          /\ \E it \in IntegerTexts :
               it.text = f["linecount"].s /\ it.value < 1000

\* One turn of the while loop of get_random_poem, on the response `resp`.
fetch_attempt(resp) ==
  LET out == try_body(resp) IN
  /\ pc = "fetching"
  /\ attempts < max_attempts
  /\ requests' = requests + 1
  /\ response' = resp
  /\ first_suitable' =
       IF first_suitable = 0 /\ IsCandidate(resp) THEN requests + 1
       ELSE first_suitable
  /\ UNCHANGED <<history, current_date, log, storeVars, now, addVars, chart>>
  /\ IF out.tag = "return" THEN
       /\ fetched' = out.value
       /\ attempts' = attempts
       /\ pc' = "wait" /\ screen' = "inspiration"
       /\ raised' = raised
     ELSE IF out.tag = "raise" /\ out.exc \notin Caught THEN
       /\ fetched' = None
       /\ attempts' = attempts
       /\ pc' = "crashed" /\ screen' = screen
       /\ raised' = [exc |-> out.exc, in |-> "get_random_poem"]
     ELSE
       \* attempts += 1 on either path; None once the budget is used up
       /\ attempts' = count_attempt(attempts)
       /\ fetched' = None
       /\ raised' = raised
       /\ IF attempts' >= max_attempts
            THEN pc' = "wait" /\ screen' = "fetch_failed"
            ELSE pc' = "fetching" /\ screen' = screen

FetchAttempt == \E resp \in Responses : fetch_attempt(resp)

\* run(): any other key.
InvalidChoice ==
  /\ pc = "menu"
  /\ screen' = "invalid_choice"
  /\ pc' = "wait"
  /\ UNCHANGED <<history, current_date, log, storeVars, now, addVars, chart,
                 fetchVars, raised>>

\* The handler's closing getch (or the plot window closing) returns to the
\* top of the loop of run(), which redraws the menu.
BackToMenu ==
  /\ pc = "wait"
  /\ pc' = "menu"
  /\ Cleared
  /\ UNCHANGED <<history, current_date, log, storeVars, now, raised>>

\* run(): key '5'.
Exit ==
  /\ pc = "menu"
  /\ pc' = "exited"
  /\ UNCHANGED <<history, current_date, log, storeVars, now, screen, addVars,
                 chart, fetchVars, raised>>

Next ==
  \/ Tick
  \/ AddMoodRecord
  \/ ViewMoodRecords
  \/ PlotMoodChart
  \/ ShowInspirations
  \/ FetchAttempt
  \/ InvalidChoice
  \/ BackToMenu
  \/ Exit

Spec == Init /\ [][Next]_vars

\* ------------------------------------------- the trend check on its own
\* check_mood_trends applied to every history of scores up to MaxTrendLen.
Histories ==
  UNION {[1..n -> MinScore..MaxScore] : n \in 0..MaxTrendLen}

InitTrend ==
  /\ moods \in Histories
  /\ dates = [i \in 1..Len(moods) |-> strftime(StartDay)]
  /\ now = StartDay
  /\ current_date = strftime(StartDay)
  /\ pc = "menu" /\ screen = "menu"
  /\ date_input = <<>> /\ mood_input = <<>> /\ db = None /\ poem = None
  /\ trend = "NotChecked" /\ chart = <<>>
  /\ attempts = 0 /\ requests = 0 /\ response = None
  /\ first_suitable = 0 /\ fetched = None
  /\ raised = None
  /\ log = <<>>
  /\ poems_db = None /\ offered = None /\ asked = 0

CheckMoodTrends ==
  /\ pc = "menu"
  /\ trend' = check_mood_trends(moods)
  /\ screen' = "trend"
  /\ pc' = "wait"
  /\ UNCHANGED <<history, current_date, log, storeVars, now, date_input,
                 mood_input, db, poem, chart, fetchVars, raised>>

NextTrend == CheckMoodTrends

SpecTrend == InitTrend /\ [][NextTrend]_vars


\* ------------------------------------- the scraper's insert and the query
\* Most poems handed to one insert_poems_to_duckdb call.
MaxOffered == 2

\* str.strip(): blanks and line breaks are taken off both ends.
Whitespace == {" ", "NL"}
RECURSIVE strip_left(_)
strip_left(s) ==
  IF s # <<>> /\ Head(s) \in Whitespace THEN strip_left(Tail(s)) ELSE s
RECURSIVE strip_right(_)
strip_right(s) ==
  IF s # <<>> /\ s[Len(s)] \in Whitespace
    THEN strip_right(SubSeq(s, 1, Len(s) - 1))
    ELSE s
strip_nothing(s) == s
strip(s) == strip_right(strip_left(s))

\* poem.get(key, "")
poem_get(poem_, key) == IF key \in DOMAIN poem_ THEN poem_[key] ELSE <<>>

\* Poem dictionaries as the scraper or another caller may hand them over.
OfferedPoems ==
  { [poem_name |-> <<"O", "d", "e">>, writer_name |-> <<"K">>,
     poem_text |-> <<"o", "NL", "h">>],
    [poem_name |-> <<" ", "O", "d", "e">>, writer_name |-> <<"K", " ">>,
     poem_text |-> <<"NL", "o", "NL", "h", " ">>],
    [poem_name |-> <<" ">>, writer_name |-> <<"K">>,
     poem_text |-> <<"o", "NL", "h">>],
    [poem_name |-> <<"O", "d", "e">>, poem_text |-> <<"o", "NL", "h">>] }
OfferedLists ==
  UNION {[1..n -> OfferedPoems] : n \in 0..MaxOffered}
MoodTypes == {"happy", "sad", "new-life"}

\* Rows as the table holds them, with their id.
WithId(id, row) ==
  [id |-> id, poem_name |-> row.poem_name, writer_name |-> row.writer_name,
   poem_text |-> row.poem_text, mood_type |-> row.mood_type]
ScraperStores ==
  {[state |-> "missing"], [state |-> "broken"]}
    \cup {[state |-> "open", rows |-> R] :
            R \in { {}, {WithId(1, DawnRow)},
                    {WithId(1, DawnRow), WithId(2, BlueRow)},
                    {WithId(1, JoyRow)} }}

\* SELECT COALESCE(MAX(id), 0) FROM poems, plus one.
next_id(rows) ==
  IF rows = {} THEN 1
  ELSE (CHOOSE m \in {r.id : r \in rows} : \A r \in rows : r.id <= m) + 1

\* The for loop of insert_poems_to_duckdb over the poems from index i on.
RECURSIVE insert_from(_, _, _, _)
insert_from(poems, i, mood_type, rows) ==
  IF i > Len(poems) THEN rows
  ELSE
    LET poem_name == strip(poem_get(poems[i], "poem_name"))
        writer_name == strip(poem_get(poems[i], "writer_name"))
        poem_text == strip(poem_get(poems[i], "poem_text"))
    IN IF poem_name = <<>> \/ writer_name = <<>> \/ poem_text = <<>>
         THEN insert_from(poems, i + 1, mood_type, rows)
       ELSE insert_from(poems, i + 1, mood_type,
              rows \cup {[id |-> next_id(rows), poem_name |-> poem_name,
                          writer_name |-> writer_name,
                          poem_text |-> poem_text,
                          mood_type |-> mood_type]})

\* insert_poems_to_duckdb: the inserted count and the file afterwards, or
\* the exception of duckdb.connect in init_duckdb.
insert_poems_to_duckdb(poems, mood_type, store) ==
  IF poems = <<>> THEN [tag |-> "return", value |-> 0, store |-> store]
  ELSE IF store.state = "broken" THEN Raise("Exception")
  ELSE
    LET rows == IF store.state = "missing" THEN {} ELSE store.rows
        after == insert_from(poems, 1, mood_type, rows)
    IN [tag |-> "return",
        value |-> Cardinality(after) - Cardinality(rows),
        store |-> [state |-> "open", rows |-> after]]

InitStore ==
  /\ dates = <<>> /\ moods = <<>>
  /\ now = StartDay
  /\ current_date = strftime(StartDay)
  /\ pc = "scraper" /\ screen = "menu"
  /\ date_input = <<>> /\ mood_input = <<>> /\ db = None /\ poem = None
  /\ trend = "NotChecked" /\ chart = <<>>
  /\ attempts = 0 /\ requests = 0 /\ response = None
  /\ first_suitable = 0 /\ fetched = None
  /\ raised = None
  /\ log = <<>>
  /\ poems_db \in ScraperStores /\ offered = None /\ asked = 0

\* One run of the scraper's insertion.
InsertPoems ==
  /\ pc = "scraper"
  /\ \E poems \in OfferedLists, mood_type \in MoodTypes :
       LET out == insert_poems_to_duckdb(poems, mood_type, poems_db) IN
       /\ offered' = [poems |-> poems, mood_type |-> mood_type,
                      before |-> poems_db]
       /\ IF out.tag = "raise" THEN
            /\ pc' = "crashed"
            /\ raised' = [exc |-> out.exc, in |-> "insert_poems_to_duckdb"]
            /\ poems_db' = poems_db
          ELSE
            /\ pc' = "stored"
            /\ raised' = raised
            /\ poems_db' = out.store
  /\ UNCHANGED <<history, current_date, now, screen, addVars, chart,
                 fetchVars, log, asked>>

\* get_poem_by_mood called on the file the scraper left.
QueryPoem ==
  /\ pc = "stored"
  /\ \E mood_score \in MinScore..MaxScore :
       \E got \in get_poem_by_mood(poems_db, mood_score) :
         /\ asked' = mood_score
         /\ db' = poems_db
         /\ poem' = IF got.tag = "return" THEN got.value ELSE None
  /\ pc' = "queried"
  /\ UNCHANGED <<history, current_date, now, screen, date_input, mood_input,
                 trend, chart, fetchVars, raised, log, poems_db, offered>>

NextStore == InsertPoems \/ QueryPoem

SpecStore == InitStore /\ [][NextStore]_vars

\* ================================================================ claims
\* A step of add_mood_record: from the menu to one of its three messages.
AddStep == pc = "menu" /\ screen' \in {"added", "not_a_number", "out_of_range"}

\* The pairs of the stored history, in insertion order.
Pairs == [i \in 1..Len(dates) |-> <<dates[i], moods[i]>>]

\* The day a well-formed YYYY-MM-DD text names, as one number.
DayNumber(date) ==
  10000 * (1000 * DigitVal(date[1]) + 100 * DigitVal(date[2])
           + 10 * DigitVal(date[3]) + DigitVal(date[4]))
    + 100 * (10 * DigitVal(date[6]) + DigitVal(date[7]))
    + (10 * DigitVal(date[9]) + DigitVal(date[10]))

\* C1: a score text that is an integer s with 1 <= s <= 10 makes
\* add_mood_record append exactly one record, (d, s), where d is the date
\* typed or, when none is typed, the date taken when the session was built.
C1_AcceptedScoreAppendsOneRecord ==
  [][\A it \in IntegerTexts :
       (AddStep /\ mood_input' = it.text /\ 1 <= it.value /\ it.value <= 10)
         => /\ moods' = Append(moods, it.value)
            /\ dates' = Append(dates, IF date_input' = <<>>
                                        THEN strftime(StartDay)
                                        ELSE date_input')]_vars

\* The text "10" accepted with no date typed, after midnight has passed: the
\* record carries the date of the session's start.
C1_Witness ==
  /\ pc = "wait" /\ screen = "added"
  /\ mood_input = <<"1", "0">> /\ date_input = <<>>
  /\ now # StartDay
  /\ Len(moods) = 2
  /\ moods[2] = 10 /\ dates[2] = strftime(StartDay)

\* C2: a score text that is no integer, or an integer outside 1..10, gets
\* the matching one of the two error messages and leaves the history as it
\* was; and whenever an error message is shown no record was appended.
C2_RejectionMutatesNothing ==
  [][AddStep =>
       /\ (mood_input' \in NonIntegerTexts
             => screen' = "not_a_number" /\ UNCHANGED history)
       /\ \A it \in IntegerTexts :
            (mood_input' = it.text /\ (it.value < 1 \/ it.value > 10))
              => screen' = "out_of_range" /\ UNCHANGED history
       /\ (screen' \in {"not_a_number", "out_of_range"}
             => UNCHANGED history)]_vars

\* C3: the trend is LowStreak iff there are at least three records and the
\* last three scores are all < 5, HighStreak iff at least three and all > 5,
\* NoTrend otherwise; never both streaks.
C3_TrendClassification ==
  screen = "trend" =>
    LET n == Len(moods)
        low == n >= 3 /\ \A k \in 0..2 : moods[n - k] < 5
        high == n >= 3 /\ \A k \in 0..2 : moods[n - k] > 5
    IN /\ (trend = "LowStreak") <=> low
       /\ (trend = "HighStreak") <=> high
       /\ (trend = "NoTrend") <=> (~low /\ ~high)
       /\ ~(low /\ high)

\* Four records, the first one high, the last three low: LowStreak.
C3_Witness ==
  /\ screen = "trend" /\ Len(moods) = 4
  /\ moods[1] = 10 /\ moods[2] = 4 /\ moods[3] = 1 /\ moods[4] = 4
  /\ trend = "LowStreak"

\* C4: for an accepted score s, get_poem_by_mood gives None or a poem the
\* store holds with category "happy" when s >= 6 and "sad" when s <= 5.
C4_PoemMatchesMood ==
  (db # None /\ poem # None) =>
    /\ db.state = "open"
    /\ \E row \in db.rows :
         /\ row.poem_name = poem.poem_name
         /\ row.writer_name = poem.writer_name
         /\ row.poem_text = poem.poem_text
         /\ row.mood_type = IF moods[Len(moods)] >= 6 THEN "happy" ELSE "sad"

\* Score 6 against a store that holds poems of every category: the happy one.
C4_Witness ==
  /\ db # None /\ db.state = "open" /\ db.rows = PoemRows
  /\ moods[Len(moods)] = 6
  /\ poem # None /\ poem.poem_name = JoyRow.poem_name

\* The store gives no poem for the score: no file, no usable database, or no
\* row of the score's category.
NoPoemFor(store, score) ==
  \/ store.state # "open"
  \/ /\ store.state = "open"
     /\ ~\E row \in store.rows :
          row.mood_type = IF score >= 6 THEN "happy" ELSE "sad"

\* The trend the three last scores of a history stand for.
TrendOf(m) ==
  IF Len(m) >= 3 /\ \A k \in 0..2 : m[Len(m) - k] < 5 THEN "LowStreak"
  ELSE IF Len(m) >= 3 /\ \A k \in 0..2 : m[Len(m) - k] > 5 THEN "HighStreak"
  ELSE "NoTrend"

\* C5: get_poem_by_mood never raises; when the store gives no poem it
\* returns None, the record stays appended, the trend check runs, and the
\* session goes back to the menu with the record kept.
C5_NoPoemIsNotAnError ==
  /\ [](raised # None => raised.in # "get_poem_by_mood")
  /\ []((db # None /\ NoPoemFor(db, moods[Len(moods)])) =>
          /\ pc = "wait" /\ screen = "added" /\ poem = None
          /\ \E it \in IntegerTexts :
               it.text = mood_input /\ moods[Len(moods)] = it.value
          /\ trend = TrendOf(moods))
  /\ [][(db # None /\ NoPoemFor(db, moods[Len(moods)]))
          => (pc' = "menu" /\ UNCHANGED history)]_vars

\* A third low score against an unusable store: no poem, and the low streak
\* is reported.
C5_Witness ==
  /\ pc = "wait" /\ db # None /\ db.state = "broken"
  /\ poem = None /\ Len(moods) = 3 /\ trend = "LowStreak"

\* C6: a poem get_random_poem returns comes from the response just read,
\* that response is the first one carrying a poem object whose line count
\* (made an integer, 0 when absent) is under 1000.
C6_ReturnsFirstSuitable ==
  (pc = "wait" /\ screen = "inspiration") =>
    /\ IsCandidate(response)
    /\ first_suitable = requests
    /\ LET f == response.body.items[1].fields IN
         /\ fetched.title =
              IF "title" \in DOMAIN f THEN f["title"] ELSE JStr(<<"Untitled">>)
         /\ fetched.author =
              IF "author" \in DOMAIN f THEN f["author"] ELSE JStr(<<"Unknown">>)
         /\ fetched.lines =
              IF "lines" \in DOMAIN f THEN f["lines"] ELSE JList(<<>>)

\* The third response is the first suitable one; it carries no line count.
C6_Witness ==
  /\ pc = "wait" /\ screen = "inspiration"
  /\ requests = 3 /\ attempts = 2
  /\ "linecount" \notin DOMAIN response.body.items[1].fields
  /\ fetched.title = JStr(<<"Untitled">>)

\* C7: get_random_poem makes at most 20 requests; every pass that does not
\* return a poem uses one attempt; None for want of a poem comes after
\* exactly 20 requests.
C7_AtMostTwentyRequests ==
  /\ requests <= 20
  /\ (pc = "fetching" => (attempts = requests /\ attempts < 20))
  /\ (screen = "inspiration" => attempts = requests - 1)
  /\ (screen = "fetch_failed" =>
        (requests = 20 /\ attempts = 20 /\ fetched = None))

\* Twenty passes without a poem, the last one a transport failure.
C7_Witness ==
  /\ pc = "wait" /\ screen = "fetch_failed"
  /\ requests = 20 /\ response = TransportError

\* C8: every failure of a pass of get_random_poem is counted and retried;
\* no exception leaves get_random_poem.
C8_NoFetchFailureSurfaces ==
  /\ (raised # None => raised.in # "get_random_poem")
  /\ (pc = "fetching" => attempts = requests)

\* C9: the chart view of a non-empty history is a permutation of its pairs,
\* ascending by date, equal dates in insertion order; nothing is charted for
\* the empty history; building the view leaves the history alone.
C9_ChartIsStableSortByDate ==
  /\ [](screen = "chart" =>
          /\ dates # <<>>
          /\ Len(chart) = Len(Pairs)
          /\ \E pi \in Permutations(1..Len(Pairs)) :
               /\ \A i \in 1..Len(Pairs) : chart[i] = Pairs[pi[i]]
               /\ \A i, j \in 1..Len(Pairs) :
                    i < j =>
                      /\ DayNumber(chart[i][1]) <= DayNumber(chart[j][1])
                      /\ (chart[i][1] = chart[j][1] => pi[i] < pi[j]))
  /\ [](screen = "no_records_to_chart" => (dates = <<>> /\ chart = <<>>))
  /\ [][(pc = "menu" /\ screen' \in {"chart", "no_records_to_chart"})
          => UNCHANGED history]_vars

\* Two records of the later date around one of the earlier date, the first
\* with the higher score: the view moves the earlier date to the front and
\* keeps the two others in insertion order.
C9_Witness ==
  /\ screen = "chart" /\ Len(dates) = 3
  /\ dates[1] = dates[3] /\ DayNumber(dates[2]) < DayNumber(dates[1])
  /\ moods[1] > moods[3]
  /\ chart = <<Pairs[2], Pairs[1], Pairs[3]>>

\* C10: run() ends only when Exit is chosen; after every other action it is
\* back at, or on its way back to, the menu.
C10_LoopEndsOnlyOnExit ==
  [][pc' \notin {"menu", "wait", "fetching"}
       => (pc = "menu" /\ pc' = "exited" /\ raised' = None)]_vars


\* The texts of OfferedPoems with the white space taken off their ends,
\* written out one by one.
Trimmed(text) ==
  CASE text = <<" ", "O", "d", "e">> -> <<"O", "d", "e">>
    [] text = <<"K", " ">> -> <<"K">>
    [] text = <<"NL", "o", "NL", "h", " ">> -> <<"o", "NL", "h">>
    [] text = <<" ">> -> <<>>
    [] OTHER -> text

Field(p, key) == IF key \in DOMAIN p THEN p[key] ELSE <<>>
PoemKeys == {"poem_name", "writer_name", "poem_text"}

\* A query that follows an insert of category "happy" or "sad" into a file
\* with no poem of that category, asking with a score of that category.
RoundTrip ==
  /\ pc = "queried"
  /\ offered.mood_type \in {"happy", "sad"}
  /\ \/ offered.before.state = "missing"
     \/ /\ offered.before.state = "open"
        /\ \A row \in offered.before.rows :
             row.mood_type # offered.mood_type
  /\ \/ offered.mood_type = "happy" /\ asked >= HappyFrom
     \/ offered.mood_type = "sad" /\ asked < HappyFrom

\* The offered poems that are kept, as the query hands them back.
Kept ==
  {[k \in PoemKeys |-> Trimmed(Field(offered.poems[i], k))] :
     i \in {j \in 1..Len(offered.poems) :
              \A k \in PoemKeys : Trimmed(Field(offered.poems[j], k)) # <<>>}}

\* C11 as stated: after one poem with a non-empty name, author and text is
\* inserted as "happy" (or "sad") into a store with no other poem of that
\* category, get_poem_by_mood with a score >= 6 (or <= 5) returns a record
\* whose name, author and text are the very values passed to the insert.
C11_RoundTripIdentical ==
  (/\ RoundTrip
   /\ Len(offered.poems) = 1
   /\ \A k \in PoemKeys : Field(offered.poems[1], k) # <<>>)
    => /\ poem # None
       /\ \A k \in PoemKeys : poem[k] = offered.poems[1][k]

\* C11 amended: the record returned carries the passed name, author and text
\* with the white space at their two ends removed; a poem one of whose three
\* values is missing or empty after that removal is not stored, and when no
\* offered poem is stored the query returns no poem.
C11_RoundTripStripped ==
  RoundTrip =>
    IF Kept = {} THEN poem = None ELSE poem \in Kept

\* A padded poem went in and came back without its padding.
C11_Witness ==
  /\ RoundTrip
  /\ Len(offered.poems) = 1
  /\ offered.poems[1].poem_name = <<" ", "O", "d", "e">>
  /\ poem # None
  /\ poem.poem_name = <<"O", "d", "e">>
  /\ poem.poem_text = <<"o", "NL", "h">>


\* C12: the history only grows at its end. Every step leaves the records
\* already stored where they were and as they were, and the history changes
\* only in a step of add_mood_record whose score text is an integer in
\* 1..10: viewing the records or the chart, the inspirations, an invalid
\* menu choice and an add with any other score text leave it unchanged.
C12_HistoryIsAppendOnly ==
  [][/\ Len(dates') >= Len(dates) /\ Len(moods') >= Len(moods)
     /\ SubSeq(dates', 1, Len(dates)) = dates
     /\ SubSeq(moods', 1, Len(moods)) = moods
     /\ (history' # history) =>
          /\ AddStep
          /\ Len(dates') = Len(dates) + 1 /\ Len(moods') = Len(moods) + 1
          /\ \E it \in IntegerTexts :
               mood_input' = it.text /\ 1 <= it.value /\ it.value <= 10]_vars

\* The chart was drawn in an order other than the history's, and the history
\* still stands in the order of entry.
C12_Witness ==
  /\ pc = "wait" /\ screen = "chart"
  /\ Len(dates) >= 2
  /\ DayNumber(dates[2]) < DayNumber(dates[1])
  /\ chart # Pairs


\* C13: a query of get_poem_by_mood that failed on a poem file that is there
\* but cannot be read as the poems database leaves a trace in the log, so
\* that it can be told from a query that merely found no matching poem,
\* though both hand None to the caller.
C13_StoreFailureLeavesATrace ==
  (/\ pc = "wait" /\ screen = "added"
   /\ db # None /\ db.state = "broken") => log # <<>>


\* C14: an add_mood_record that appends a record reports, in that same call,
\* the trend of the history with the new record in it, whatever the poem
\* store gave: the call that appends the n-th record reports the trend of
\* the first n records, so the third score in a row below 5 (above 5)
\* reports LowStreak (HighStreak) at once.
\* A call that never reached check_mood_trends shows no streak message, as
\* one that found no streak.
C14_TrendOverAppendedHistory ==
  [][(AddStep /\ history' # history /\ pc' = "wait")
       => (IF trend' = "NotChecked" THEN "NoTrend" ELSE trend')
            = TrendOf(moods')]_vars


\* C15: in every state of a session the history is well-formed: dates and
\* moods have the same length, and every stored score is an integer from 1
\* to 10.
C15_HistoryWellFormed ==
  /\ Len(dates) = Len(moods)
  /\ \A i \in 1..Len(moods) :
       moods[i] \in Int /\ 1 <= moods[i] /\ moods[i] <= 10

\* A history holding both ends of the range, with the text "0" refused
\* just now.
C15_Witness ==
  /\ pc = "wait" /\ screen = "out_of_range" /\ mood_input = <<"0">>
  /\ Len(moods) = 2 /\ Len(dates) = 2
  /\ moods[1] = 1 /\ moods[2] = 10

====
